---- MODULE Spec2Model ----
(***************************************************************************)
(* A small-step model of the JSONdotLang evaluator (src/jdl.py).           *)
(*                                                                         *)
(* The host program is recursive Python.  The model makes the host's       *)
(* control stack explicit: `kont` is the sequence of live activations of   *)
(* Lang.run, Lang.execute_instruction and Lang.resolve_value, and `ret`    *)
(* carries what the finished callee hands to its caller: a value or a      *)
(* raised exception.  `frames` is CallStack.frames, `scopes` the heap of   *)
(* Scope objects.                                                          *)
(*                                                                         *)
(* Python values are tagged records (field k names the type):              *)
(*   int, bool, none, str (a string not starting with "$"), ref (the       *)
(*   string "$" + s), tuple, list, dict (ordered key/value pairs), func,   *)
(*   float (the exact quotient num/den; rounding is not modelled).         *)
(* Values are immutable in the model, so Scope.get's deepcopy is the       *)
(* identity on them.                                                       *)
(***************************************************************************)
EXTENDS Integers, Sequences, FiniteSets, TLC

VARIABLES code, kont, ret, frames, scopes, out, status, ghost

vars == <<code, kont, ret, frames, scopes, out, status, ghost>>

\* At most this many Scope objects are created in one run.
MaxScopes == 5

\* The integer literals of the programs are 0..MaxInt.
MaxInt == 2

\* A switch of the programs has at most this many case arguments.
MaxCases == 2

\* A loop of the programs runs at most this many iterations.
MaxIter == 3

-----------------------------------------------------------------------------
(* Python values *)

None == [k |-> "none"]
IntV(n) == [k |-> "int", n |-> n]
Bool(b) == [k |-> "bool", b |-> b]
Str(s) == [k |-> "str", s |-> s]
Ref(s) == [k |-> "ref", s |-> s]
Tup(items) == [k |-> "tuple", items |-> items]
List(items) == [k |-> "list", items |-> items]
Dict(pairs) == [k |-> "dict", pairs |-> pairs]
Float(num, den) == [k |-> "float", num |-> num, den |-> den]

Func(params, body, name) == [k |-> "func", params |-> params, body |-> body, name |-> name]

IsSeqValue(v) == v.k \in {"tuple", "list"}

\* Python truthiness (bool(v)).
Truthy(v) ==
    CASE v.k = "none" -> FALSE
      [] v.k = "int" -> v.n # 0
      [] v.k = "bool" -> v.b
      [] v.k = "float" -> v.num # 0
      [] v.k = "str" -> v.s # ""
      [] v.k = "ref" -> TRUE
      [] v.k \in {"tuple", "list"} -> Len(v.items) > 0
      [] v.k = "dict" -> Len(v.pairs) > 0
      [] OTHER -> TRUE

IsNumber(v) == v.k \in {"int", "bool", "float"}

\* A number as the fraction <<numerator, denominator>>, denominator > 0.
Num(v) ==
    CASE v.k = "int" -> <<v.n, 1>>
      [] v.k = "bool" -> <<IF v.b THEN 1 ELSE 0, 1>>
      [] OTHER -> <<v.num, v.den>>

\* Python ==: numbers compare by numeric value, everything else structurally.
PyEq(a, b) ==
    IF IsNumber(a) /\ IsNumber(b)
    THEN Num(a)[1] * Num(b)[2] = Num(b)[1] * Num(a)[2]
    ELSE a = b

\* hash(v) succeeds: lists and dicts are unhashable.
RECURSIVE Hashable(_)
Hashable(v) ==
    CASE v.k \in {"list", "dict"} -> FALSE
      [] v.k = "tuple" -> \A i \in 1..Len(v.items) : Hashable(v.items[i])
      [] OTHER -> TRUE

Abs(n) == IF n < 0 THEN -n ELSE n

RECURSIVE Gcd(_, _)
Gcd(a, b) == IF b = 0 THEN a ELSE Gcd(b, a % b)

\* The float n/d (d # 0) in lowest terms with a positive denominator.
MkFloat(n, d) ==
    LET g == Gcd(Abs(n), Abs(d))
        s == IF d < 0 THEN -1 ELSE 1
    IN Float(s * (n \div g), s * (d \div g))

Ok(v) == [ok |-> TRUE, v |-> v]
Err(name) == [ok |-> FALSE, err |-> name]

\* floor(n/d) for d # 0.
FloorDiv(n, d) == IF d > 0 THEN n \div d ELSE (-n) \div (-d)

\* The binary operators of flatten_arithmetic's table (ops), on numbers.  Two
\* ints give an int except under "/", which always gives a float; a float
\* operand makes the result a float.  A zero divisor raises
\* ZeroDivisionError; a non-number operand raises TypeError (string and
\* list operands of + and * are outside the modelled programs).
ArithOp(op, a, b) ==
    IF ~(IsNumber(a) /\ IsNumber(b)) THEN Err("TypeError")
    ELSE LET x == Num(a)
             y == Num(b)
             exact == a.k # "float" /\ b.k # "float"
             Mk(n, d) == IF exact THEN Ok(IntV(n)) ELSE Ok(MkFloat(n, d))
         IN CASE op = "+" -> Mk(x[1] * y[2] + y[1] * x[2], x[2] * y[2])
              [] op = "-" -> Mk(x[1] * y[2] - y[1] * x[2], x[2] * y[2])
              [] op = "*" -> Mk(x[1] * y[1], x[2] * y[2])
              [] op = "/" -> IF y[1] = 0 THEN Err("ZeroDivisionError")
                             ELSE Ok(MkFloat(x[1] * y[2], x[2] * y[1]))
              [] op = "%" -> IF y[1] = 0 THEN Err("ZeroDivisionError")
                             ELSE LET q == FloorDiv(x[1] * y[2], x[2] * y[1])
                                  IN Mk(x[1] * y[2] - q * y[1] * x[2], x[2] * y[2])

ArithTags == {"+", "-", "*", "/", "%"}

CompareTags == {"==", "!=", "<", ">", "<=", ">=", "and", "or", "not", "!->"}

\* The binary operators of the comparison table (ops) of the default case.
\* Ordering is modelled on numbers (ordering strings or sequences is
\* outside the modelled programs and raises TypeError here); "!->" is
\* `a not in b` for a tuple or list b.
CompareOp(op, a, b) ==
    CASE op = "==" -> Ok(Bool(PyEq(a, b)))
      [] op = "!=" -> Ok(Bool(~PyEq(a, b)))
      [] op \in {"<", ">", "<=", ">="} ->
            IF ~(IsNumber(a) /\ IsNumber(b)) THEN Err("TypeError")
            ELSE LET l == Num(a)[1] * Num(b)[2]
                     r == Num(b)[1] * Num(a)[2]
                 IN Ok(Bool(CASE op = "<" -> l < r
                              [] op = ">" -> l > r
                              [] op = "<=" -> l <= r
                              [] OTHER -> l >= r))
      [] op = "and" -> Ok(IF Truthy(a) THEN b ELSE a)
      [] op = "or" -> Ok(IF Truthy(a) THEN a ELSE b)
      [] OTHER -> IF IsSeqValue(b)
                  THEN Ok(Bool(\A i \in 1..Len(b.items) : ~PyEq(b.items[i], a)))
                  ELSE Err("TypeError")

BinOp(op, a, b) == IF op \in ArithTags THEN ArithOp(op, a, b) ELSE CompareOp(op, a, b)

\* functools.reduce(f, values) without an initial value: left to right;
\* an empty sequence raises TypeError.
RECURSIVE ReduceFrom(_, _, _, _)
ReduceFrom(op, acc, values, i) ==
    IF i > Len(values) THEN Ok(acc)
    ELSE LET r == BinOp(op, acc, values[i])
         IN IF r.ok THEN ReduceFrom(op, r.v, values, i + 1) ELSE r

reduce(op, values) ==
    IF Len(values) = 0 THEN Err("TypeError")
    ELSE ReduceFrom(op, values[1], values, 2)

-----------------------------------------------------------------------------
(* Scope: scopes[id] = [parent |-> id of the parent scope or 0 for None,   *)
(* locals |-> the dict of bindings, a function from names to values].      *)

NoLocals == [n \in {} |-> None]

NewScope(parent) == [parent |-> parent, locals |-> NoLocals]

Bind(locals, name, value) ==
    [n \in DOMAIN locals \cup {name} |-> IF n = name THEN value ELSE locals[n]]

\* The nearest scope on the chain from id that binds name, 0 when none does.
RECURSIVE Owner(_, _, _)
Owner(sc, id, name) ==
    IF name \in DOMAIN sc[id].locals THEN id
    ELSE IF sc[id].parent # 0 THEN Owner(sc, sc[id].parent, name)
    ELSE 0

\* A set that assigns to the scope that already binds the name (variant of
\* ScopeSet with assignment semantics).
ScopeSetNearest(sc, id, name, value) ==
    [sc EXCEPT ![IF Owner(sc, id, name) = 0 THEN id ELSE Owner(sc, id, name)].locals
                    = Bind(@, name, value)]

\* Scope.set: binds in this scope only.
ScopeSet(sc, id, name, value) ==
    [sc EXCEPT ![id].locals = Bind(@, name, value)]

\* Scope.get: this scope, then the parents; NameError when the chain ends.
\* An unhashable name makes the dict lookup raise TypeError.
RECURSIVE ScopeGet(_, _, _)
ScopeGet(sc, id, name) ==
    IF ~Hashable(name) THEN Err("TypeError")
    ELSE IF name \in DOMAIN sc[id].locals THEN Ok(sc[id].locals[name])
    ELSE IF sc[id].parent # 0 THEN ScopeGet(sc, sc[id].parent, name)
    ELSE Err("NameError")

\* Scope.export: with a parent, parent.set(name, self.get(name)) for each
\* name in order (an unbound name raises NameError after the earlier names
\* were written); without a parent, ScopeException.  The result is the new
\* heap and the error raised, "" for none.
RECURSIVE ExportFrom(_, _, _, _)
ExportFrom(sc, id, names, i) ==
    IF i > Len(names) THEN [sc |-> sc, err |-> ""]
    ELSE LET g == ScopeGet(sc, id, names[i])
         IN IF g.ok
            THEN ExportFrom(ScopeSet(sc, sc[id].parent, names[i], g.v), id, names, i + 1)
            ELSE [sc |-> sc, err |-> g.err]

\* An export that does nothing in a scope without a parent (variant of
\* ScopeExport without the ScopeException).
ScopeExportSilent(sc, id, names) ==
    IF sc[id].parent # 0 THEN ExportFrom(sc, id, names, 1)
    ELSE [sc |-> sc, err |-> ""]

ScopeExport(sc, id, names) ==
    IF sc[id].parent # 0 THEN ExportFrom(sc, id, names, 1)
    ELSE [sc |-> sc, err |-> "ScopeException"]

\* Scope.is_global_func_exists: get succeeds and yields a Func; NameError
\* is caught and gives False, any other error propagates.
is_global_func_exists(sc, id, funcname) ==
    LET g == ScopeGet(sc, id, funcname)
    IN IF g.ok THEN Ok(g.v.k = "func")
       ELSE IF g.err = "NameError" THEN Ok(FALSE) ELSE g

-----------------------------------------------------------------------------
(* CallStack *)

CallFrame(name, instruction, line_number) ==
    [name |-> name, instruction |-> instruction, line_number |-> line_number]

\* CallStack.push
push(fr, name, instruction, line_number) ==
    Append(fr, CallFrame(name, instruction, line_number))

\* CallStack.pop: removes the top frame, if there is one.
pop(fr) == IF Len(fr) > 0 THEN SubSeq(fr, 1, Len(fr) - 1) ELSE fr

\* CallFrame.__str__: "  at <name> (line <n>): <instruction>", without the
\* "(line <n>)" part when line_number is None (0 here).  The cut of the
\* instruction text to 60 characters is not modelled.
CallFrameStr(f) == [at |-> f.name, line |-> f.line_number, text |-> f.instruction]

\* CallStack.get_traceback: one line per frame, oldest first.
get_traceback(fr) == [i \in 1..Len(fr) |-> CallFrameStr(fr[i])]

-----------------------------------------------------------------------------
(* The host's control stack.  An activation is one live call of Lang.run   *)
(* ("run"), Lang.execute_instruction ("exec") or Lang.resolve_value        *)
(* ("resolve"); scope and ctx are the self.scope and self.context_name of  *)
(* the Lang object the method runs on; line 0 stands for line_number=None. *)
(* Two fields of an exec activation are ghosts: entry is CallStack.frames  *)
(* when the instruction was entered, heap the Scope objects as they were   *)
(* when the function body of a call was started.                           *)

RunAct(body, scope, ctx) ==
    [a |-> "run", code |-> body, i |-> 0, result |-> None, scope |-> scope, ctx |-> ctx]

ExecAct(loc, line, scope, ctx) ==
    [a |-> "exec", loc |-> loc, line |-> line, scope |-> scope, ctx |-> ctx,
     pc |-> "enter", then |-> "", todo |-> <<>>, vals |-> <<>>, result |-> None,
     i |-> 0, j |-> 0, fn |-> None, entry |-> <<>>, heap |-> <<>>]

ResolveAct(value, scope, ctx) ==
    [a |-> "resolve", value |-> value, scope |-> scope, ctx |-> ctx, i |-> 0, vals |-> <<>>]

\* What a callee hands back: nothing yet, a value, or a raised exception.
Call == [t |-> "call"]
Val(v) == [t |-> "val", v |-> v]
Exc(e) == [t |-> "exc", e |-> e]

ReturnValue(value) == [x |-> "ReturnValue", value |-> value]
BreakLoop == [x |-> "BreakLoop"]
ContinueLoop == [x |-> "ContinueLoop"]
SystemExit(c) == [x |-> "SystemExit", code |-> c]
\* Every other exception (a subclass of Exception), by its class name.
Error(name) == [x |-> "Error", name |-> name]
Raise(name) == Exc(Error(name))

IsExc(r, x) == r.t = "exc" /\ r.e.x = x

Active == status = "running" /\ kont # <<>>
Top == kont[Len(kont)]
TopIs(a) == Active /\ Top.a = a
At(pc) == Active /\ Top.a = "exec" /\ Top.pc = pc

Popped == SubSeq(kont, 1, Len(kont) - 1)
SetTop(act) == [kont EXCEPT ![Len(kont)] = act]

\* instr = loc[0]; args = loc[1:]
Instr(act) == act.loc.items[1]
Args(act) == Tail(act.loc.items)
IsTag(act, s) == Instr(act) = Str(s)

\* The ghost record: raisedAt is CallStack.frames at the moment the last
\* Error was raised; lastExit is, for the last execute_instruction that
\* ended, CallStack.frames at its entry and after its exit, and how it ended.
NoteRaise(r) == IF IsExc(r, "Error") THEN [ghost EXCEPT !.raisedAt = frames] ELSE ghost

\* The instruction's case ends with outcome r (a return or a raise inside
\* the try block): the finally block runs next.
Finish(r) ==
    /\ kont' = SetTop([Top EXCEPT !.pc = "finally"])
    /\ ret' = r
    /\ ghost' = NoteRaise(r)

\* Resolve the operands `todo` one after the other into vals, then go on at
\* `then`.
StartArgs(act, todo, then) ==
    IF todo = <<>> THEN [act EXCEPT !.pc = then, !.vals = <<>>]
    ELSE [act EXCEPT !.pc = "args", !.then = then, !.todo = todo, !.vals = <<>>]

\* A body is run as a sequence when it is a list or tuple, else executed
\* as one instruction.
EvalBody(act, body) ==
    IF IsSeqValue(body) THEN RunAct(body, act.scope, act.ctx)
    ELSE ExecAct(body, 0, act.scope, act.ctx)

TopContext == Str("<string>")

-----------------------------------------------------------------------------
(* Lang.run *)

\* for loc in self.code: a non-tuple element is wrapped into a 1-tuple, then
\* execute_instruction(loc, line_number=i+1).
RunStep ==
    /\ TopIs("run") /\ ret.t = "call"
    /\ IsSeqValue(Top.code) /\ Top.i < Len(Top.code.items)
    /\ LET loc0 == Top.code.items[Top.i + 1]
           loc == IF loc0.k # "tuple" THEN Tup(<<loc0>>) ELSE loc0
       IN kont' = Append(kont, ExecAct(loc, Top.i + 1, Top.scope, Top.ctx))
    /\ UNCHANGED <<code, ret, frames, scopes, out, status, ghost>>

\* result = <the instruction's value>; i += 1
RunReturn ==
    /\ TopIs("run") /\ ret.t = "val"
    /\ kont' = SetTop([Top EXCEPT !.result = ret.v, !.i = @ + 1])
    /\ ret' = Call
    /\ UNCHANGED <<code, frames, scopes, out, status, ghost>>

\* The loop is over: return result.  Code that is no sequence cannot be
\* iterated: TypeError, raised outside the try block.
RunDone ==
    /\ TopIs("run") /\ ret.t = "call"
    /\ IsSeqValue(Top.code) => Top.i = Len(Top.code.items)
    /\ kont' = Popped
    /\ ret' = IF IsSeqValue(Top.code) THEN Val(Top.result) ELSE Raise("TypeError")
    /\ ghost' = NoteRaise(ret')
    /\ UNCHANGED <<code, frames, scopes, out, status>>

\* except (ReturnValue, BreakLoop, ContinueLoop): raise
RunSignal ==
    /\ TopIs("run") /\ ret.t = "exc"
    /\ ret.e.x \in {"ReturnValue", "BreakLoop", "ContinueLoop"}
    /\ kont' = Popped
    /\ UNCHANGED <<code, ret, frames, scopes, out, status, ghost>>

\* except Exception: print the error name and the traceback of the
\* CallStack as it is now, then raise SystemExit(1).
RunError ==
    /\ TopIs("run") /\ IsExc(ret, "Error")
    /\ out' = Append(out, [error_name |-> ret.e.name, traceback |-> get_traceback(frames)])
    /\ ret' = Exc(SystemExit(IntV(1)))
    /\ kont' = Popped
    /\ UNCHANGED <<code, frames, scopes, status, ghost>>

\* SystemExit is no Exception: no handler of run catches it.
RunExit ==
    /\ TopIs("run") /\ IsExc(ret, "SystemExit")
    /\ kont' = Popped
    /\ UNCHANGED <<code, ret, frames, scopes, out, status, ghost>>

\* The top-level run is over: it returned, the process exits through
\* SystemExit, or a signal nobody caught ends it.
Halt ==
    /\ status = "running" /\ kont = <<>>
    /\ status' = IF ret.t = "val" THEN "finished"
                 ELSE IF ret.e.x = "SystemExit" THEN "exited" ELSE "crashed"
    /\ UNCHANGED <<code, kont, ret, frames, scopes, out, ghost>>

-----------------------------------------------------------------------------
(* Lang.resolve_value *)

\* "$name" -> self.scope.get(name)
ResolveRef ==
    /\ TopIs("resolve") /\ ret.t = "call" /\ Top.value.k = "ref"
    /\ LET g == ScopeGet(scopes, Top.scope, Str(Top.value.s))
       IN ret' = IF g.ok THEN Val(g.v) ELSE Raise(g.err)
    /\ kont' = Popped
    /\ ghost' = NoteRaise(ret')
    /\ UNCHANGED <<code, frames, scopes, out, status>>

\* non-empty tuple -> return self.execute_instruction(value)
ResolveInstr ==
    /\ TopIs("resolve") /\ ret.t = "call"
    /\ Top.value.k = "tuple" /\ Len(Top.value.items) > 0
    /\ kont' = SetTop(ExecAct(Top.value, 0, Top.scope, Top.ctx))
    /\ UNCHANGED <<code, ret, frames, scopes, out, status, ghost>>

ContainerItems(v) ==
    IF v.k = "list" THEN v.items ELSE [n \in 1..Len(v.pairs) |-> v.pairs[n][2]]

Rebuilt(v, vals) ==
    IF v.k = "list" THEN List(vals)
    ELSE Dict([n \in 1..Len(v.pairs) |-> <<v.pairs[n][1], vals[n]>>])

\* list -> [resolve_value(v) for v in value]; dict -> the values resolved.
ResolveContainer ==
    /\ TopIs("resolve") /\ ret.t = "call" /\ Top.value.k \in {"list", "dict"}
    /\ IF Top.i < Len(ContainerItems(Top.value))
       THEN /\ kont' = Append(SetTop([Top EXCEPT !.i = @ + 1]),
                              ResolveAct(ContainerItems(Top.value)[Top.i + 1], Top.scope, Top.ctx))
            /\ ret' = ret
       ELSE /\ kont' = Popped
            /\ ret' = Val(Rebuilt(Top.value, Top.vals))
    /\ UNCHANGED <<code, frames, scopes, out, status, ghost>>

\* One element of the container is resolved, or its resolution raised.
ResolveElement ==
    /\ TopIs("resolve") /\ ret.t # "call"
    /\ IF ret.t = "val"
       THEN kont' = SetTop([Top EXCEPT !.vals = Append(@, ret.v)]) /\ ret' = Call
       ELSE kont' = Popped /\ ret' = ret
    /\ UNCHANGED <<code, frames, scopes, out, status, ghost>>

\* anything else is returned as it is
ResolveLiteral ==
    /\ TopIs("resolve") /\ ret.t = "call"
    /\ Top.value.k \notin {"ref", "list", "dict"}
    /\ Top.value.k = "tuple" => Len(Top.value.items) = 0
    /\ kont' = Popped
    /\ ret' = Val(Top.value)
    /\ UNCHANGED <<code, frames, scopes, out, status, ghost>>

-----------------------------------------------------------------------------
(* Lang.execute_instruction: entry, operands, exit *)

\* instr = loc[0] fails before the frame is pushed when loc is empty
\* (IndexError) or cannot be indexed (TypeError; a str or dict loc is outside
\* the modelled programs).  Otherwise call_stack.push(context_name, loc,
\* line_number) and the try block is entered.
ExecEnter ==
    /\ At("enter")
    /\ IF IsSeqValue(Top.loc) /\ Len(Top.loc.items) > 0
       THEN /\ frames' = push(frames, Top.ctx, Top.loc, Top.line)
            /\ kont' = SetTop([Top EXCEPT !.pc = "dispatch", !.entry = frames])
            /\ ret' = ret
       ELSE /\ frames' = frames
            /\ kont' = Popped
            /\ ret' = Raise(IF IsSeqValue(Top.loc) THEN "IndexError" ELSE "TypeError")
    /\ ghost' = NoteRaise(ret')
    /\ UNCHANGED <<code, scopes, out, status>>

\* The next operand is handed to resolve_value.
ExecArgNext ==
    /\ At("args") /\ ret.t = "call"
    /\ kont' = Append(kont, ResolveAct(Head(Top.todo), Top.scope, Top.ctx))
    /\ UNCHANGED <<code, ret, frames, scopes, out, status, ghost>>

\* resolve_value returned: keep the value; after the last operand the case
\* goes on.
ExecArgDone ==
    /\ At("args") /\ ret.t = "val"
    /\ kont' = SetTop([Top EXCEPT !.vals = Append(@, ret.v), !.todo = Tail(@),
                                  !.pc = IF Len(Top.todo) = 1 THEN Top.then ELSE "args"])
    /\ ret' = Call
    /\ UNCHANGED <<code, frames, scopes, out, status, ghost>>

\* `return Lang(...).run()` / `return self.execute_instruction(body)`
ExecTail ==
    /\ At("tail") /\ ret.t = "val"
    /\ Finish(ret)
    /\ UNCHANGED <<code, frames, scopes, out, status>>

\* Handlers without the `except ReturnValue` of the call (variant of
\* Handles).
HandlesLoopsOnly(act, e) ==
    act.pc \in {"while_body", "for_body"} /\ e.x \in {"BreakLoop", "ContinueLoop"}

\* Handlers without the `except ContinueLoop` of the for loop (variant of
\* Handles).
HandlesNoForContinue(act, e) ==
    CASE act.pc = "while_body" -> e.x \in {"BreakLoop", "ContinueLoop"}
      [] act.pc = "for_body" -> e.x = "BreakLoop"
      [] act.pc = "call_body" -> e.x = "ReturnValue"
      [] OTHER -> FALSE

\* The exception in flight is caught by the activation at this point of
\* its code: BreakLoop and ContinueLoop by the try around a loop body,
\* ReturnValue by the try around a function body.
Handles(act, e) ==
    CASE act.pc \in {"while_body", "for_body"} -> e.x \in {"BreakLoop", "ContinueLoop"}
      [] act.pc = "call_body" -> e.x = "ReturnValue"
      [] OTHER -> FALSE

\* A pop that is skipped when the instruction raised (variant of
\* FinallyPop without the finally).
FinallyPopOnSuccess(fr, r) == IF r.t = "exc" THEN fr ELSE pop(fr)

\* finally: self.call_stack.pop(), whatever the outcome r.
FinallyPop(fr, r) == pop(fr)

\* The try block is left, by a return, by a raise of the case, or by an
\* exception of a callee that this activation does not catch; the finally
\* block pops the frame and the outcome goes to the caller.
ExecFinally ==
    /\ Active /\ Top.a = "exec" /\ Top.pc # "enter"
    /\ IF ret.t = "exc" THEN ~Handles(Top, ret.e) ELSE Top.pc = "finally"
    /\ frames' = FinallyPop(frames, ret)
    /\ kont' = Popped
    /\ ghost' = [ghost EXCEPT !.lastExit = [entry |-> Top.entry, after |-> frames',
                                             by |-> IF ret.t = "exc" THEN ret.e.x ELSE "return"]]
    /\ UNCHANGED <<code, ret, scopes, out, status>>

-----------------------------------------------------------------------------
(* Lang.execute_instruction: the cases of the match *)

Builtins == {"exit", "var", "int", "str", "float", "bool", "func", "return", "break",
             "continue", "export", "if", "while", "for", "get", "print", "input",
             "array", "dict", "index", "len", "switch"}

\* The status of exit with one argument: the argument as it stands.
ExitStatus(act) == Args(act)[1]

\* case "exit"
ExecExit ==
    /\ At("dispatch") /\ IsTag(Top, "exit")
    /\ Finish(CASE Len(Args(Top)) = 0 -> Exc(SystemExit(IntV(0)))
                [] Len(Args(Top)) = 1 -> Exc(SystemExit(ExitStatus(Top)))
                [] OTHER -> Raise("ValueError"))
    /\ UNCHANGED <<code, frames, scopes, out, status>>

\* case "var": arity, then resolve the value
ExecVar ==
    /\ At("dispatch") /\ IsTag(Top, "var")
    /\ IF Len(Args(Top)) # 2
       THEN Finish(Raise("SyntaxError"))
       ELSE /\ kont' = SetTop(StartArgs(Top, <<Args(Top)[2]>>, "var_set"))
            /\ UNCHANGED <<ret, ghost>>
    /\ UNCHANGED <<code, frames, scopes, out, status>>

\* self.scope.set(name, resolved_value); return resolved_value
ExecVarSet ==
    /\ At("var_set")
    /\ IF Hashable(Args(Top)[1])
       THEN /\ scopes' = ScopeSet(scopes, Top.scope, Args(Top)[1], Top.vals[1])
            /\ Finish(Val(Top.vals[1]))
       ELSE /\ scopes' = scopes
            /\ Finish(Raise("TypeError"))
    /\ UNCHANGED <<code, frames, out, status>>

\* case "func": bind Func(params, body, name) in the current scope
ExecFunc ==
    /\ At("dispatch") /\ IsTag(Top, "func")
    /\ LET args == Args(Top)
       IN IF Len(args) # 3
          THEN scopes' = scopes /\ Finish(Raise("SyntaxError"))
          ELSE IF ~Hashable(args[1])
          THEN scopes' = scopes /\ Finish(Raise("TypeError"))
          ELSE /\ scopes' = ScopeSet(scopes, Top.scope, args[1], Func(args[2], args[3], args[1]))
               /\ Finish(Val(Func(args[2], args[3], args[1])))
    /\ UNCHANGED <<code, frames, out, status>>

\* case "return": no argument raises ReturnValue(None) at once; otherwise
\* the arguments are resolved first
ExecReturn ==
    /\ At("dispatch") /\ IsTag(Top, "return")
    /\ IF Len(Args(Top)) = 0
       THEN Finish(Exc(ReturnValue(None)))
       ELSE /\ kont' = SetTop(StartArgs(Top, Args(Top), "return_raise"))
            /\ UNCHANGED <<ret, ghost>>
    /\ UNCHANGED <<code, frames, scopes, out, status>>

\* The value a return with at least one argument carries.
ReturnPayload(vals) == IF Len(vals) = 1 THEN vals[1] ELSE Tup(vals)

ExecReturnRaise ==
    /\ At("return_raise")
    /\ Finish(Exc(ReturnValue(ReturnPayload(Top.vals))))
    /\ UNCHANGED <<code, frames, scopes, out, status>>

\* case "break"
ExecBreak ==
    /\ At("dispatch") /\ IsTag(Top, "break")
    /\ Finish(Exc(BreakLoop))
    /\ UNCHANGED <<code, frames, scopes, out, status>>

\* case "continue"
ExecContinue ==
    /\ At("dispatch") /\ IsTag(Top, "continue")
    /\ Finish(Exc(ContinueLoop))
    /\ UNCHANGED <<code, frames, scopes, out, status>>

\* case "export": self.scope.export(*args); the case returns nothing
ExecExport ==
    /\ At("dispatch") /\ IsTag(Top, "export")
    /\ LET r == ScopeExport(scopes, Top.scope, Args(Top))
       IN /\ scopes' = r.sc
          /\ Finish(IF r.err = "" THEN Val(None) ELSE Raise(r.err))
    /\ UNCHANGED <<code, frames, out, status>>

\* case "get"
ExecGet ==
    /\ At("dispatch") /\ IsTag(Top, "get")
    /\ IF Len(Args(Top)) # 1
       THEN Finish(Raise("SyntaxError"))
       ELSE LET g == ScopeGet(scopes, Top.scope, Args(Top)[1])
            IN Finish(IF g.ok THEN Val(g.v) ELSE Raise(g.err))
    /\ UNCHANGED <<code, frames, scopes, out, status>>

\* case "if": arity, then resolve the condition
ExecIf ==
    /\ At("dispatch") /\ IsTag(Top, "if")
    /\ IF Len(Args(Top)) < 2 \/ Len(Args(Top)) > 3
       THEN Finish(Raise("SyntaxError"))
       ELSE /\ kont' = SetTop(StartArgs(Top, <<Args(Top)[1]>>, "if_branch"))
            /\ UNCHANGED <<ret, ghost>>
    /\ UNCHANGED <<code, frames, scopes, out, status>>

\* The branch of an if that is evaluated: then_body on a truthy condition,
\* else a truthy else_body, else none (None here).
IfBranch(args, condition) ==
    IF Truthy(condition) THEN args[2]
    ELSE IF Len(args) = 3 /\ Truthy(args[3]) THEN args[3]
    ELSE None

ExecIfBranch ==
    /\ At("if_branch")
    /\ LET body == IfBranch(Args(Top), Top.vals[1])
       IN IF Truthy(Top.vals[1]) \/ body # None
          THEN /\ kont' = Append(SetTop([Top EXCEPT !.pc = "tail"]), EvalBody(Top, body))
               /\ UNCHANGED <<ret, ghost>>
          ELSE Finish(Val(None))
    /\ UNCHANGED <<code, frames, scopes, out, status>>

\* case "while": arity; result = None
ExecWhile ==
    /\ At("dispatch") /\ IsTag(Top, "while")
    /\ IF Len(Args(Top)) # 2
       THEN Finish(Raise("SyntaxError"))
       ELSE /\ kont' = SetTop([Top EXCEPT !.pc = "while_cond", !.result = None])
            /\ UNCHANGED <<ret, ghost>>
    /\ UNCHANGED <<code, frames, scopes, out, status>>

\* The condition is executed when it is a tuple, else resolved.
ExecWhileCond ==
    /\ At("while_cond") /\ ret.t = "call"
    /\ LET c == Args(Top)[1]
       IN kont' = Append(SetTop([Top EXCEPT !.pc = "while_test"]),
                         IF c.k = "tuple" THEN ExecAct(c, 0, Top.scope, Top.ctx)
                         ELSE ResolveAct(c, Top.scope, Top.ctx))
    /\ UNCHANGED <<code, ret, frames, scopes, out, status, ghost>>

\* `if not condition: break`, else the body is evaluated inside the try.
ExecWhileTest ==
    /\ At("while_test") /\ ret.t = "val"
    /\ IF Truthy(ret.v)
       THEN /\ kont' = Append(SetTop([Top EXCEPT !.pc = "while_body"]),
                              EvalBody(Top, Args(Top)[2]))
            /\ ret' = Call
            /\ ghost' = ghost
       ELSE Finish(Val(Top.result))
    /\ UNCHANGED <<code, frames, scopes, out, status>>

\* The body ended: result is its value and the condition comes next.
LoopBodyDone(act, head, v) == [act EXCEPT !.pc = head, !.result = v]

\* except ContinueLoop: continue
LoopContinue(act, head) == [act EXCEPT !.pc = head]

ExecWhileBody ==
    /\ At("while_body") /\ ret.t = "val"
    /\ kont' = SetTop(LoopBodyDone(Top, "while_cond", ret.v))
    /\ ret' = Call
    /\ UNCHANGED <<code, frames, scopes, out, status, ghost>>

\* except BreakLoop: break; then return result
ExecWhileBreak ==
    /\ At("while_body") /\ IsExc(ret, "BreakLoop")
    /\ Finish(Val(Top.result))
    /\ UNCHANGED <<code, frames, scopes, out, status>>

ExecWhileContinue ==
    /\ At("while_body") /\ IsExc(ret, "ContinueLoop")
    /\ kont' = SetTop(LoopContinue(Top, "while_cond"))
    /\ ret' = Call
    /\ UNCHANGED <<code, frames, scopes, out, status, ghost>>

\* case "for": arity, then resolve the iterable once; result = None
ExecFor ==
    /\ At("dispatch") /\ IsTag(Top, "for")
    /\ IF Len(Args(Top)) # 3
       THEN Finish(Raise("SyntaxError"))
       ELSE /\ kont' = SetTop(StartArgs([Top EXCEPT !.result = None, !.i = 0],
                                        <<Args(Top)[2]>>, "for_next"))
            /\ UNCHANGED <<ret, ghost>>
    /\ UNCHANGED <<code, frames, scopes, out, status>>

\* for item in iterable: bind the next item and evaluate the body inside
\* the try; return result when the items are used up.  A value that is no
\* list or tuple raises TypeError (iterating a str or dict is outside the
\* modelled programs).
ExecForNext ==
    /\ At("for_next") /\ ret.t = "call"
    /\ LET iterable == Top.vals[1]
       IN IF ~IsSeqValue(iterable)
          THEN scopes' = scopes /\ Finish(Raise("TypeError"))
          ELSE IF Top.i < Len(iterable.items) /\ ~Hashable(Args(Top)[1])
          THEN scopes' = scopes /\ Finish(Raise("TypeError"))
          ELSE IF Top.i < Len(iterable.items)
          THEN /\ scopes' = ScopeSet(scopes, Top.scope, Args(Top)[1], iterable.items[Top.i + 1])
               /\ kont' = Append(SetTop([Top EXCEPT !.pc = "for_body", !.i = @ + 1]),
                                 EvalBody(Top, Args(Top)[3]))
               /\ UNCHANGED <<ret, ghost>>
          ELSE scopes' = scopes /\ Finish(Val(Top.result))
    /\ UNCHANGED <<code, frames, out, status>>

ExecForBody ==
    /\ At("for_body") /\ ret.t = "val"
    /\ kont' = SetTop(LoopBodyDone(Top, "for_next", ret.v))
    /\ ret' = Call
    /\ UNCHANGED <<code, frames, scopes, out, status, ghost>>

ExecForBreak ==
    /\ At("for_body") /\ IsExc(ret, "BreakLoop")
    /\ Finish(Val(Top.result))
    /\ UNCHANGED <<code, frames, scopes, out, status>>

ExecForContinue ==
    /\ At("for_body") /\ IsExc(ret, "ContinueLoop")
    /\ kont' = SetTop(LoopContinue(Top, "for_next"))
    /\ ret' = Call
    /\ UNCHANGED <<code, frames, scopes, out, status, ghost>>

\* cases = args[1:-1]
switch_cases(args) == SubSeq(args, 2, Len(args) - 1)

\* default_block = args[-1] if isinstance(args[-1], list) else None
switch_default(args) == IF args[Len(args)].k = "list" THEN args[Len(args)] ELSE None

\* case "switch": arity, then resolve the value
ExecSwitch ==
    /\ At("dispatch") /\ IsTag(Top, "switch")
    /\ IF Len(Args(Top)) < 2
       THEN Finish(Raise("SyntaxError"))
       ELSE /\ kont' = SetTop(StartArgs([Top EXCEPT !.i = 1, !.j = 1],
                                        <<Args(Top)[1]>>, "switch_scan"))
            /\ UNCHANGED <<ret, ghost>>
    /\ UNCHANGED <<code, frames, scopes, out, status>>

\* for case_dict in cases: for case_value, case_body in case_dict.items():
\* the next key is resolved; a case that is no dict raises TypeError; after
\* the last case a truthy default block is run, else the result is None.
ExecSwitchScan ==
    /\ At("switch_scan") /\ ret.t = "call"
    /\ LET cases == switch_cases(Args(Top))
           dflt == switch_default(Args(Top))
       IN IF Top.i > Len(cases)
          THEN IF Truthy(dflt)
               THEN /\ kont' = Append(SetTop([Top EXCEPT !.pc = "tail"]), EvalBody(Top, dflt))
                    /\ UNCHANGED <<ret, ghost>>
               ELSE Finish(Val(None))
          ELSE IF cases[Top.i].k # "dict"
          THEN Finish(Raise("TypeError"))
          ELSE IF Top.j > Len(cases[Top.i].pairs)
          THEN /\ kont' = SetTop([Top EXCEPT !.i = @ + 1, !.j = 1])
               /\ UNCHANGED <<ret, ghost>>
          ELSE /\ kont' = Append(SetTop([Top EXCEPT !.pc = "switch_match"]),
                                 ResolveAct(cases[Top.i].pairs[Top.j][1], Top.scope, Top.ctx))
               /\ UNCHANGED <<ret, ghost>>
    /\ UNCHANGED <<code, frames, scopes, out, status>>

\* if value == case_value_resolved: the body is evaluated and returned;
\* else the scan goes on.
ExecSwitchMatch ==
    /\ At("switch_match") /\ ret.t = "val"
    /\ LET pair == switch_cases(Args(Top))[Top.i].pairs[Top.j]
       IN IF PyEq(Top.vals[1], ret.v)
          THEN kont' = Append(SetTop([Top EXCEPT !.pc = "tail"]), EvalBody(Top, pair[2]))
          ELSE kont' = SetTop([Top EXCEPT !.pc = "switch_scan", !.j = @ + 1])
    /\ ret' = Call
    /\ UNCHANGED <<code, frames, scopes, out, status, ghost>>

-----------------------------------------------------------------------------
(* The default case: arithmetic, comparison, user function call *)

IsArith(act) == Instr(act).k = "str" /\ Instr(act).s \in ArithTags
IsCompare(act) == Instr(act).k = "str" /\ Instr(act).s \in CompareTags
IsBuiltin(act) == Instr(act).k = "str" /\ Instr(act).s \in Builtins

\* flatten_arithmetic(instr, args): stack = list(args); values = []
ExecArith ==
    /\ At("dispatch") /\ IsArith(Top)
    /\ kont' = SetTop([Top EXCEPT !.pc = "flatten", !.todo = Args(Top), !.vals = <<>>])
    /\ UNCHANGED <<code, ret, frames, scopes, out, status, ghost>>

\* item is a non-empty list or tuple whose first element is instr
SameTag(item, instr) ==
    IsSeqValue(item) /\ Len(item.items) > 0 /\ item.items[1] = instr

\* The stack after item = stack.pop(0): the operands of a same-tag item are
\* put in front of the rest.
FlattenStack(stack, instr) ==
    IF SameTag(Head(stack), instr) THEN Tail(Head(stack).items) \o Tail(stack)
    ELSE Tail(stack)

\* while stack: one item is popped; it is spliced into the stack or handed
\* to resolve_value.
ExecFlattenStep ==
    /\ At("flatten") /\ ret.t = "call" /\ Top.todo # <<>>
    /\ LET item == Head(Top.todo)
           rest == FlattenStack(Top.todo, Instr(Top))
       IN IF SameTag(item, Instr(Top))
          THEN kont' = SetTop([Top EXCEPT !.todo = rest])
          ELSE kont' = Append(SetTop([Top EXCEPT !.todo = rest]),
                              ResolveAct(item, Top.scope, Top.ctx))
    /\ UNCHANGED <<code, ret, frames, scopes, out, status, ghost>>

\* values.append(<the resolved item>)
ExecFlattenValue ==
    /\ At("flatten") /\ ret.t = "val"
    /\ kont' = SetTop([Top EXCEPT !.vals = Append(@, ret.v)])
    /\ ret' = Call
    /\ UNCHANGED <<code, frames, scopes, out, status, ghost>>

\* return reduce(ops[instr], values); a result that is None is not
\* returned by the dispatch, which goes on to the function lookup.
ExecFlattenReduce ==
    /\ At("flatten") /\ ret.t = "call" /\ Top.todo = <<>>
    /\ LET r == reduce(Instr(Top).s, Top.vals)
       IN IF ~r.ok THEN Finish(Raise(r.err))
          ELSE IF r.v = None
          THEN kont' = SetTop([Top EXCEPT !.pc = "lookup"]) /\ UNCHANGED <<ret, ghost>>
          ELSE Finish(Val(r.v))
    /\ UNCHANGED <<code, frames, scopes, out, status>>

\* Comparison and boolean operators: `not` takes one argument; the operands
\* are all resolved first.
ExecCompare ==
    /\ At("dispatch") /\ IsCompare(Top)
    /\ IF IsTag(Top, "not") /\ Len(Args(Top)) # 1
       THEN Finish(Raise("SyntaxError"))
       ELSE /\ kont' = SetTop(StartArgs(Top, Args(Top), "compare_reduce"))
            /\ UNCHANGED <<ret, ghost>>
    /\ UNCHANGED <<code, frames, scopes, out, status>>

\* return not <value> / return reduce(ops[instr], values)
ExecCompareReduce ==
    /\ At("compare_reduce")
    /\ LET r == IF IsTag(Top, "not") THEN Ok(Bool(~Truthy(Top.vals[1])))
                ELSE reduce(Instr(Top).s, Top.vals)
       IN Finish(IF r.ok THEN Val(r.v) ELSE Raise(r.err))
    /\ UNCHANGED <<code, frames, scopes, out, status>>

\* len(func.params), for parameters given as a list or tuple.
ParamCount(func) == IF IsSeqValue(func.params) THEN Len(func.params.items) ELSE -1

\* A tag that is no built-in: the name must be bound to a Func on the scope
\* chain (else SyntaxError, unknown instruction) and the argument count
\* must equal the parameter count (else SyntaxError).  func is read here,
\* before the arguments are resolved.
ExecCallLookup ==
    /\ Active /\ Top.a = "exec" /\ Top.pc \in {"dispatch", "lookup"}
    /\ Top.pc = "dispatch" => ~IsBuiltin(Top) /\ ~IsArith(Top) /\ ~IsCompare(Top)
    /\ LET e == is_global_func_exists(scopes, Top.scope, Instr(Top))
       IN IF ~e.ok THEN Finish(Raise(e.err))
          ELSE IF ~e.v THEN Finish(Raise("SyntaxError"))
          ELSE LET func == ScopeGet(scopes, Top.scope, Instr(Top)).v
               IN IF ParamCount(func) < 0 THEN Finish(Raise("TypeError"))
                  ELSE IF Len(Args(Top)) # ParamCount(func) THEN Finish(Raise("SyntaxError"))
                  ELSE /\ kont' = SetTop(StartArgs([Top EXCEPT !.fn = func], Args(Top), "call"))
                       /\ UNCHANGED <<ret, ghost>>
    /\ UNCHANGED <<code, frames, scopes, out, status>>

\* func_scope.locals[param] = resolved_arg, for the parameters in order
RECURSIVE BindParams(_, _, _, _)
BindParams(locals, params, vals, i) ==
    IF i > Len(params) THEN locals
    ELSE BindParams(Bind(locals, params[i], vals[i]), params, vals, i + 1)

\* The root scope as the parent of every call scope (variant of
\* CalleeParent).
CalleeParentGlobal(caller) == 1

\* The parent of the scope of a call: Scope(self.scope), the scope the
\* calling instruction runs in.
CalleeParent(caller) == caller.scope

\* func_scope = Scope(self.scope) with the parameters bound to the resolved
\* arguments (the arguments were resolved in self.scope; nothing can read
\* func_scope before the body runs); then Lang(func_scope, func.body,
\* self.call_stack, func.name).run() inside the try.
ExecCall ==
    /\ At("call") /\ Len(scopes) < MaxScopes
    /\ scopes' = Append(scopes, [parent |-> CalleeParent(Top),
                                 locals |-> BindParams(NoLocals, Top.fn.params.items, Top.vals, 1)])
    /\ kont' = Append(SetTop([Top EXCEPT !.pc = "call_body", !.heap = scopes]),
                      RunAct(Top.fn.body, Len(scopes) + 1, Top.fn.name))
    /\ UNCHANGED <<code, ret, frames, out, status, ghost>>

\* func_lang.run() returned: return None
ExecCallReturn ==
    /\ At("call_body") /\ ret.t = "val"
    /\ Finish(Val(None))
    /\ UNCHANGED <<code, frames, scopes, out, status>>

\* except ReturnValue as ret: return ret.value
ExecCallCatch ==
    /\ At("call_body") /\ IsExc(ret, "ReturnValue")
    /\ Finish(Val(ret.e.value))
    /\ UNCHANGED <<code, frames, scopes, out, status>>

-----------------------------------------------------------------------------
(* Programs.  I(tag, args) is the instruction tuple (tag, *args); N(s) a   *)
(* name.  The families below are the instruction trees the model runs.     *)

I(tag, args) == Tup(<<Str(tag)>> \o args)
N(s) == Str(s)

Ints == 0..MaxInt
Ops == {"+", "-", "*", "/", "%"}

\* An operand of an arithmetic instruction of tag op: an integer, or a
\* nested instruction of the same tag over two integers.
ArithOperands(op) ==
    {IntV(n) : n \in Ints} \cup {I(op, <<IntV(a), IntV(b)>>) : a, b \in Ints}

\* (op x y) and (op x y z) with x, y operands as above and z an integer.
ArithInstrs ==
    UNION {{I(op, <<x, y>>) : x, y \in ArithOperands(op)} : op \in Ops}
    \cup UNION {{I(op, <<IntV(1), I(op, <<IntV(a), I(op, <<IntV(b), IntV(2)>>)>>)>>) :
                    a, b \in Ints} : op \in Ops}

ArithPrograms == {Tup(<<x>>) : x \in ArithInstrs}

\* Runs that end in an error at several nesting depths: at top level, in an
\* operand, in a for body, in a while body, in a function body, in a
\* function called from a loop body; an empty instruction.
ErrPrograms ==
    {Tup(<<I("get", <<N("y")>>)>>),
     Tup(<<I("var", <<N("x"), I("get", <<N("y")>>)>>)>>),
     Tup(<<I("var", <<N("x"), Ref("y")>>)>>),
     Tup(<<I("nosuch", <<IntV(1)>>)>>),
     Tup(<<Tup(<<>>)>>),
     Tup(<<I("while", <<IntV(1), List(<<I("var", <<N("x")>>)>>)>>)>>),
     Tup(<<I("func", <<N("f"), List(<<>>), IntV(1)>>), I("f", <<>>)>>),
     Tup(<<I("func", <<N("f"), List(<<N("a")>>), List(<<I("get", <<N("zz")>>)>>)>>),
           I("f", <<IntV(1)>>)>>)}
    \cup {Tup(<<I("for", <<N("i"), List(<<IntV(n), IntV(1)>>),
                          List(<<I("/", <<IntV(1), Ref("i")>>)>>)>>)>>) : n \in Ints}
    \cup {Tup(<<I("func", <<N("f"), List(<<N("a")>>),
                           List(<<I("return", <<I("%", <<IntV(1), Ref("a")>>)>>)>>)>>),
                I("for", <<N("i"), List(<<IntV(n), IntV(0)>>),
                           List(<<I("f", <<Ref("i")>>)>>)>>)>>) : n \in Ints}

\* switch programs.  The case at position c is {key: [var(hit, c)]}, the
\* default block is [var(hit, 0)]; the value and the keys are in 1..MaxInt.
SwitchCase(key, c) == Dict(<< <<IntV(key), List(<<I("var", <<N("hit"), IntV(c)>>)>>)>> >>)
SwitchDefault == List(<<I("var", <<N("hit"), IntV(0)>>)>>)

\* The case arguments of a switch: up to MaxCases cases.
CaseLists ==
    UNION {{[c \in 1..len |-> SwitchCase(keys[c], c)] : keys \in [1..len -> 1..MaxInt]} :
              len \in 0..MaxCases}

\* switch(v, case..., [default]): the last argument is a case or a default.
SwitchInstrs ==
    {I("switch", <<IntV(v)>> \o cs \o d) :
        v \in 1..MaxInt, cs \in CaseLists, d \in {<<>>, <<SwitchDefault>>}}

SwitchPrograms == {Tup(<<x>>) : x \in SwitchInstrs}

\* exit programs, each with the status the process must end with.
ExitCases ==
    {[prog |-> Tup(<<I("exit", <<>>)>>), exit_status |-> IntV(0)]}
    \cup {[prog |-> Tup(<<I("exit", <<IntV(n)>>)>>), exit_status |-> IntV(n)] : n \in Ints}
    \cup {[prog |-> Tup(<<I("var", <<N("c"), IntV(n)>>), I("exit", <<Ref("c")>>)>>),
           exit_status |-> IntV(n)] : n \in Ints}
    \cup {[prog |-> Tup(<<I("exit", <<I("+", <<IntV(n), IntV(1)>>)>>)>>),
           exit_status |-> IntV(n + 1)] : n \in Ints}
    \cup {[prog |-> Tup(<<I("if", <<IntV(1), List(<<I("exit", <<IntV(n)>>)>>)>>),
                          I("var", <<N("after"), IntV(1)>>)>>),
           exit_status |-> IntV(n)] : n \in Ints}

\* exit with two arguments.
ExitArityPrograms == {Tup(<<I("exit", <<IntV(n), IntV(m)>>)>>) : n, m \in Ints}

ExitPrograms == {c.prog : c \in ExitCases} \cup ExitArityPrograms

\* Name/value pairs as a dict of bindings.
Env(pairs) ==
    [n \in {pairs[m][1] : m \in 1..Len(pairs)} |->
        pairs[CHOOSE m \in 1..Len(pairs) :
                 pairs[m][1] = n /\ \A q \in (m + 1)..Len(pairs) : pairs[q][1] # n][2]]

Var(name, value) == I("var", <<N(name), value>>)

\* Instructions that leave a mark in the root scope when a function body
\* goes on after a return.
Late == <<Var("late", IntV(1)), I("export", <<N("late")>>)>>

ReturnP == I("return", <<Ref("p")>>)

\* func f(p) with the given body; r = f(arg); after = 1.
RetProg(body, arg) ==
    Tup(<<I("func", <<N("f"), List(<<N("p")>>), List(body)>>),
          Var("r", I("f", <<IntV(arg)>>)),
          Var("after", IntV(1))>>)

\* return programs: a return at the top of the body and inside if, else,
\* while, for, switch bodies, alone and nested in each other, each followed
\* by Late; a body without return; a call nested in a call.  r is the
\* result the call must have, seen the value of the root's `seen` (None:
\* unbound).
RetCases ==
    UNION {
      {[prog |-> RetProg(<<I("return", <<>>)>> \o Late, n), r |-> None, seen |-> None],
       [prog |-> RetProg(<<ReturnP>> \o Late, n), r |-> IntV(n), seen |-> None],
       [prog |-> RetProg(<<I("return", <<Ref("p"), IntV(1)>>)>> \o Late, n),
        r |-> Tup(<<IntV(n), IntV(1)>>), seen |-> None],
       [prog |-> RetProg(<<I("if", <<IntV(1), List(<<ReturnP>> \o Late)>>)>> \o Late, n),
        r |-> IntV(n), seen |-> None],
       [prog |-> RetProg(<<I("if", <<IntV(0), List(<<>>), List(<<ReturnP>> \o Late)>>)>> \o Late, n),
        r |-> IntV(n), seen |-> None],
       [prog |-> RetProg(<<I("while", <<IntV(1), List(<<ReturnP>> \o Late)>>)>> \o Late, n),
        r |-> IntV(n), seen |-> None],
       [prog |-> RetProg(<<I("for", <<N("i"), List(<<Ref("p"), IntV(7), IntV(8)>>),
                             List(<<Var("seen", Ref("i")), I("export", <<N("seen")>>),
                                    I("return", <<Ref("i")>>)>> \o Late)>>)>> \o Late, n),
        r |-> IntV(n), seen |-> IntV(n)],
       [prog |-> RetProg(<<I("switch", <<IntV(1),
                             Dict(<< <<IntV(1), List(<<ReturnP>> \o Late)>> >>),
                             List(<<>>)>>)>> \o Late, n),
        r |-> IntV(n), seen |-> None],
       [prog |-> RetProg(<<I("for", <<N("i"), List(<<IntV(5), IntV(6)>>),
                             List(<<Var("seen", Ref("i")), I("export", <<N("seen")>>),
                                    I("while", <<IntV(1),
                                       List(<<I("if", <<IntV(1),
                                          List(<<I("switch", <<IntV(1),
                                             Dict(<< <<IntV(1), List(<<ReturnP>> \o Late)>> >>),
                                             List(<<>>)>>)>> \o Late)>>)>> \o Late)>>)>>
                                  \o Late)>>)>> \o Late, n),
        r |-> IntV(n), seen |-> IntV(5)],
       [prog |-> RetProg(<<Var("q", Ref("p"))>>, n), r |-> None, seen |-> None],
       [prog |-> Tup(<<I("func", <<N("g"), List(<<>>), List(<<I("return", <<IntV(n)>>)>> \o Late)>>),
                       I("func", <<N("f"), List(<<N("p")>>),
                                   List(<<Var("a", I("g", <<>>)),
                                          I("return", <<I("+", <<Ref("a"), Ref("p")>>)>>)>>
                                        \o Late)>>),
                       Var("r", I("f", <<IntV(1)>>)),
                       Var("after", IntV(1))>>),
        r |-> IntV(n + 1), seen |-> None]}
      : n \in Ints}

RetPrograms == {c.prog : c \in RetCases}

LoopBody(counter, K, kind, nested_in) ==
    List(<<Var(counter, I("+", <<Ref(counter), IntV(1)>>)),
           IF nested_in = "if"
           THEN I("if", <<I("==", <<Ref(counter), IntV(K)>>), List(<<I(kind, <<>>)>>)>>)
           ELSE I("switch", <<Ref(counter), Dict(<< <<IntV(K), List(<<I(kind, <<>>)>>)>> >>),
                             List(<<>>)>>),
           Var("late", Ref(counter))>>)

\* i = 0; while i < M: i += 1; <kind when i = K>; late = i
WhileProg(M, K, kind, nested_in) ==
    Tup(<<Var("i", IntV(0)),
          I("while", <<I("<", <<Ref("i"), IntV(M)>>), LoopBody("i", K, kind, nested_in)>>)>>)

\* i = 0; for e in [1..M]: i += 1; <kind when i = K>; late = i
ForProg(M, K, kind, nested_in) ==
    Tup(<<Var("i", IntV(0)),
          I("for", <<N("e"), List([n \in 1..M |-> IntV(n)]), LoopBody("i", K, kind, nested_in)>>)>>)

\* for x in [1, 2]: o += 1; <the while loop above>; post = i
NestedProg(M, K, kind) ==
    Tup(<<Var("o", IntV(0)),
          I("for", <<N("x"), List(<<IntV(1), IntV(2)>>),
                     List(<<Var("o", I("+", <<Ref("o"), IntV(1)>>))>>
                          \o WhileProg(M, K, kind, "if").items
                          \o <<Var("post", Ref("i"))>>)>>)>>)

\* The bindings of i and late after the loop: a break in iteration K leaves
\* i = K bodies started and late from iteration K - 1; a continue in
\* iteration K skips late in that iteration only.
AfterLoop(M, K, kind) ==
    IF kind = "break"
    THEN <<<<N("i"), IntV(K)>>>> \o (IF K > 1 THEN <<<<N("late"), IntV(K - 1)>>>> ELSE <<>>)
    ELSE <<<<N("i"), IntV(M)>>>>
         \o (IF K < M THEN <<<<N("late"), IntV(M)>>>>
             ELSE IF M > 1 THEN <<<<N("late"), IntV(M - 1)>>>> ELSE <<>>)

\* Loop programs with the root bindings they must end with; the loop runs
\* up to M <= MaxIter iterations and the break or continue is in iteration K.
LoopCases ==
    UNION {UNION {UNION {
      {[prog |-> WhileProg(M, K, kind, "if"), env |-> Env(AfterLoop(M, K, kind))],
       [prog |-> WhileProg(M, K, kind, "switch"), env |-> Env(AfterLoop(M, K, kind))],
       [prog |-> ForProg(M, K, kind, "if"),
        env |-> Env(AfterLoop(M, K, kind)
                    \o <<<<N("e"), IntV(IF kind = "break" THEN K ELSE M)>>>>)],
       [prog |-> NestedProg(M, K, kind),
        env |-> Env(AfterLoop(M, K, kind)
                    \o <<<<N("o"), IntV(2)>>, <<N("x"), IntV(2)>>,
                         <<N("post"), IntV(IF kind = "break" THEN K ELSE M)>>>>)]}
      : K \in 1..M} : M \in 1..MaxIter} : kind \in {"break", "continue"}}

LoopPrograms == {c.prog : c \in LoopCases}

Def(name, params, body) == I("func", <<N(name), List(params), List(body)>>)

\* Programs that read x in a function called from two scopes: the root,
\* where x = a, and the body of f, where x = b.  ra and rb are the values
\* the two calls must give.
ScopeCases ==
    UNION {
      {[prog |-> Tup(<<Var("x", IntV(a)),
                       Def("g", <<>>, <<I("return", <<Ref("x")>>)>>),
                       Def("f", <<>>, <<Var("x", IntV(b)), I("return", <<I("g", <<>>)>>)>>),
                       Var("ra", I("g", <<>>)),
                       Var("rb", I("f", <<>>))>>),
        ra |-> IntV(a), rb |-> IntV(b)],
       [prog |-> Tup(<<Var("x", IntV(a)),
                       Def("h", <<N("p")>>, <<I("return", <<I("+", <<Ref("p"), Ref("x")>>)>>)>>),
                       Def("f", <<>>, <<Var("x", IntV(b)), I("return", <<I("h", <<Ref("x")>>)>>)>>),
                       Var("ra", I("h", <<Ref("x")>>)),
                       Var("rb", I("f", <<>>))>>),
        ra |-> IntV(a + a), rb |-> IntV(b + b)],
       [prog |-> Tup(<<Var("x", IntV(a)),
                       Def("mk", <<>>, <<Var("x", IntV(b)),
                                         Def("g", <<>>, <<I("return", <<Ref("x")>>)>>),
                                         I("export", <<N("g")>>),
                                         I("return", <<I("g", <<>>)>>)>>),
                       Var("rb", I("mk", <<>>)),
                       Var("ra", I("g", <<>>))>>),
        ra |-> IntV(a), rb |-> IntV(b)]}
      : a, b \in Ints}

ScopePrograms == {c.prog : c \in ScopeCases}

\* A function body that binds x, g, i, y, z and its parameter p, by var,
\* func, for and parameter binding, then exports the names given.
BindBody(b, exported) ==
    <<Var("x", IntV(b)),
      Def("g", <<>>, <<>>),
      I("for", <<N("i"), List(<<IntV(b), IntV(b)>>), List(<<Var("y", Ref("i"))>>)>>),
      I("if", <<IntV(1), List(<<Var("z", Ref("p"))>>)>>)>>
    \o (IF exported = <<>> THEN <<>> ELSE <<I("export", exported)>>)

\* Programs calling that function from the root and from the body of
\* another function, where x, g, i, p are bound to a; env is the root's
\* bindings at the end, the functions f and c left out.
BindCases ==
    UNION {
      {[prog |-> Tup(<<Var("x", IntV(a)), Var("g", IntV(a)), Var("i", IntV(a)), Var("p", IntV(a)),
                       Def("f", <<N("p")>>, BindBody(b, <<>>)),
                       I("f", <<IntV(b)>>)>>),
        env |-> Env(<< <<N("x"), IntV(a)>>, <<N("g"), IntV(a)>>, <<N("i"), IntV(a)>>,
                       <<N("p"), IntV(a)>> >>)],
       [prog |-> Tup(<<Var("x", IntV(a)), Var("g", IntV(a)), Var("i", IntV(a)), Var("p", IntV(a)),
                       Def("f", <<N("p")>>, BindBody(b, <<N("x"), N("z")>>)),
                       I("f", <<IntV(b)>>)>>),
        env |-> Env(<< <<N("x"), IntV(b)>>, <<N("g"), IntV(a)>>, <<N("i"), IntV(a)>>,
                       <<N("p"), IntV(a)>>, <<N("z"), IntV(b)>> >>)],
       [prog |-> Tup(<<Var("x", IntV(a)), Var("g", IntV(a)), Var("i", IntV(a)), Var("p", IntV(a)),
                       Def("f", <<N("p")>>, BindBody(b, <<N("x")>>)),
                       Def("c", <<>>, <<Var("i", IntV(b)), I("f", <<IntV(b)>>),
                                        Var("cx", Ref("x")), Var("ci", Ref("i")),
                                        I("export", <<N("cx"), N("ci")>>)>>),
                       I("c", <<>>)>>),
        env |-> Env(<< <<N("x"), IntV(a)>>, <<N("g"), IntV(a)>>, <<N("i"), IntV(a)>>,
                       <<N("p"), IntV(a)>>, <<N("cx"), IntV(b)>>, <<N("ci"), IntV(b)>> >>)]}
      : a, b \in Ints}

BindPrograms == {c.prog : c \in BindCases}

\* export in a function body, of a local and of names found in ancestor
\* scopes; env is the root's bindings at the end, the functions left out.
ExportCases ==
    UNION {
      {[prog |-> Tup(<<Def("f", <<>>, <<Var("x", IntV(n)), I("export", <<N("x")>>)>>),
                       I("f", <<>>)>>),
        env |-> Env(<< <<N("x"), IntV(n)>> >>)],
       [prog |-> Tup(<<Var("y", IntV(m)),
                       Def("g", <<>>, <<I("export", <<N("x"), N("y")>>)>>),
                       Def("f", <<>>, <<Var("x", IntV(n)), Var("y", IntV(n)), I("g", <<>>),
                                        Var("fx", Ref("x")), Var("fy", Ref("y")),
                                        I("export", <<N("fx"), N("fy")>>)>>),
                       I("f", <<>>)>>),
        env |-> Env(<< <<N("y"), IntV(m)>>, <<N("fx"), IntV(n)>>, <<N("fy"), IntV(n)>> >>)],
       [prog |-> Tup(<<Var("y", IntV(m)),
                       Def("g", <<>>, <<I("export", <<N("y")>>)>>),
                       Def("f", <<>>, <<I("g", <<>>), Var("y", I("+", <<Ref("y"), IntV(n)>>)),
                                        I("export", <<N("y")>>)>>),
                       I("f", <<>>)>>),
        env |-> Env(<< <<N("y"), IntV(m + n)>> >>)]}
      : n, m \in Ints}

\* export in the root scope: of a bound name, of an unbound name, of two
\* names, of no name, at top level and inside an if body.
RootExportCases ==
    UNION {
      {[prog |-> Tup(<<Var("x", IntV(n)), I("export", <<N("x")>>), Var("after", IntV(1))>>),
        env |-> Env(<< <<N("x"), IntV(n)>> >>)],
       [prog |-> Tup(<<Var("x", IntV(n)), I("export", <<N("y")>>), Var("after", IntV(1))>>),
        env |-> Env(<< <<N("x"), IntV(n)>> >>)],
       [prog |-> Tup(<<Var("x", IntV(n)), I("export", <<N("x"), N("y")>>)>>),
        env |-> Env(<< <<N("x"), IntV(n)>> >>)],
       [prog |-> Tup(<<Var("x", IntV(n)), I("export", <<>>)>>),
        env |-> Env(<< <<N("x"), IntV(n)>> >>)],
       [prog |-> Tup(<<Var("x", IntV(n)),
                       I("if", <<IntV(1), List(<<I("export", <<N("x")>>)>>)>>)>>),
        env |-> Env(<< <<N("x"), IntV(n)>> >>)]}
      : n \in Ints}

ExportPrograms == {c.prog : c \in ExportCases} \cup {c.prog : c \in RootExportCases}

\* if whose taken branch is one instruction, a tuple of a tag and its
\* operands, not a sequence of instructions: as then body, as else body,
\* writing a variable, reading one, and computing.  result is the value of
\* that instruction and x the value it binds to x (None: it binds nothing).
IfCases ==
    UNION {
      {[prog |-> Tup(<<I("if", <<IntV(1), Var("x", IntV(n))>>)>>),
        result |-> IntV(n), x |-> IntV(n)],
       [prog |-> Tup(<<I("if", <<IntV(0), List(<<Var("z", IntV(m))>>), Var("x", IntV(n))>>)>>),
        result |-> IntV(n), x |-> IntV(n)],
       [prog |-> Tup(<<Var("y", IntV(n)), I("if", <<IntV(m + 1), I("get", <<N("y")>>)>>)>>),
        result |-> IntV(n), x |-> None],
       [prog |-> Tup(<<I("if", <<IntV(1), I("+", <<IntV(n), IntV(m)>>)>>)>>),
        result |-> IntV(n + m), x |-> None]}
      : n, m \in Ints}

IfPrograms == {c.prog : c \in IfCases}

Programs ==
    ArithPrograms \cup ErrPrograms \cup SwitchPrograms \cup ExitPrograms
    \cup RetPrograms \cup LoopPrograms \cup ScopePrograms \cup BindPrograms
    \cup ExportPrograms \cup IfPrograms

-----------------------------------------------------------------------------

Init ==
    /\ code \in Programs
    /\ kont = <<RunAct(code, 1, TopContext)>>
    /\ ret = Call
    /\ frames = <<>>
    /\ scopes = <<NewScope(0)>>
    /\ out = <<>>
    /\ status = "running"
    /\ ghost = [raisedAt |-> <<>>, lastExit |-> [entry |-> <<>>, after |-> <<>>, by |-> ""]]

Next ==
    \/ RunStep \/ RunReturn \/ RunDone \/ RunSignal \/ RunError \/ RunExit \/ Halt
    \/ ResolveRef \/ ResolveInstr \/ ResolveContainer \/ ResolveElement \/ ResolveLiteral
    \/ ExecEnter \/ ExecArgNext \/ ExecArgDone \/ ExecTail \/ ExecFinally
    \/ ExecExit \/ ExecVar \/ ExecVarSet \/ ExecFunc \/ ExecReturn \/ ExecReturnRaise
    \/ ExecBreak \/ ExecContinue \/ ExecExport \/ ExecGet
    \/ ExecIf \/ ExecIfBranch
    \/ ExecWhile \/ ExecWhileCond \/ ExecWhileTest \/ ExecWhileBody
    \/ ExecWhileBreak \/ ExecWhileContinue
    \/ ExecFor \/ ExecForNext \/ ExecForBody \/ ExecForBreak \/ ExecForContinue
    \/ ExecSwitch \/ ExecSwitchScan \/ ExecSwitchMatch
    \/ ExecArith \/ ExecFlattenStep \/ ExecFlattenValue \/ ExecFlattenReduce
    \/ ExecCompare \/ ExecCompareReduce
    \/ ExecCallLookup \/ ExecCall \/ ExecCallReturn \/ ExecCallCatch

Spec == Init /\ [][Next]_vars

-----------------------------------------------------------------------------
(* Observations of a run *)

RootLocals == scopes[1].locals
RootHas(name) == N(name) \in DOMAIN RootLocals
RootVal(name) == RootLocals[N(name)]

\* The run is over and the process has not been ended by an exception.
Finished == status = "finished"

\* How the top-level run ended: its result, or the name of the error that
\* run printed before it ended the process.
Outcome ==
    IF status = "finished" THEN Ok(ret.v)
    ELSE IF Len(out) > 0 THEN Err(out[Len(out)].error_name)
    ELSE Err("")

-----------------------------------------------------------------------------
(* C1 *)

\* The activations of execute_instruction that have pushed their frame.
Running == {n \in 1..Len(kont) : kont[n].a = "exec" /\ kont[n].pc # "enter"}

\* C1: every running execute_instruction holds exactly one frame on the
\* CallStack, its own, right above the frames it found on entry; the last
\* one that ended, however it ended, left the frames it found on entry;
\* when the top-level run is over the CallStack is empty.
C1_FramesPaired ==
    /\ \A n \in Running :
          /\ Len(frames) > Len(kont[n].entry)
          /\ SubSeq(frames, 1, Len(kont[n].entry) + 1)
                = Append(kont[n].entry, CallFrame(kont[n].ctx, kont[n].loc, kont[n].line))
    /\ Len(frames) = Cardinality(Running)
    /\ ghost.lastExit.after = ghost.lastExit.entry
    /\ status # "running" => frames = <<>>

\* An instruction nested in others ended by an error turned into SystemExit
\* and left the frames of the enclosing instructions in place.
C1_Witness ==
    /\ ghost.lastExit.by = "SystemExit"
    /\ ghost.lastExit.entry # <<>>
    /\ ghost.lastExit.after = ghost.lastExit.entry
    /\ frames = ghost.lastExit.entry

-----------------------------------------------------------------------------
(* C2 *)

\* C2 (as claimed): the trace printed with an error is the CallStack as it
\* was when the error was raised, the failing instruction's frame included.
C2_TraceIsStackAtFailure ==
    \A n \in 1..Len(out) : out[n].traceback = get_traceback(ghost.raisedAt)

\* What the code prints: the frames of the instructions that enclose the
\* run that caught the error.
C2_TraceIsEnclosingFrames ==
    \A n \in 1..Len(out) :
        /\ Len(out[n].traceback) < Len(ghost.raisedAt) \/ ghost.raisedAt = <<>>
        /\ out[n].traceback
             = get_traceback(SubSeq(ghost.raisedAt, 1, Len(out[n].traceback)))

-----------------------------------------------------------------------------
(* C3 *)

\* The arguments after the value that are case mappings, in argument order.
CaseArgs(args) ==
    LET rest == Tail(args)
        Pick[n \in 0..Len(rest)] ==
            IF n = 0 THEN <<>>
            ELSE IF rest[n].k = "dict" THEN Append(Pick[n - 1], rest[n]) ELSE Pick[n - 1]
    IN Pick[Len(rest)]

\* The body the claim has evaluated: that of the first case whose key equals
\* the value, else the default (a last argument that is a list), else none.
SwitchChosen(args) ==
    LET cs == CaseArgs(args)
        hits == {c \in 1..Len(cs) : PyEq(cs[c].pairs[1][1], args[1])}
    IN IF hits # {} THEN cs[CHOOSE c \in hits : \A d \in hits : c <= d].pairs[1][2]
       ELSE IF args[Len(args)].k = "list" THEN args[Len(args)]
       ELSE None

\* The result of a switch whose chosen body is [var(hit, c)], and None when
\* no body is chosen.
SwitchResult(args) ==
    IF SwitchChosen(args) = None THEN None ELSE SwitchChosen(args).items[1].items[3]

\* C3 (as claimed): a switch with at least one argument after the value
\* ends with the result of the chosen body, the last argument being scanned
\* as a case when it is a case mapping, and no other body is evaluated.
C3_SwitchFirstMatch ==
    (status # "running" /\ code \in SwitchPrograms /\ Len(code.items[1].items) > 2)
        => LET args == Tail(code.items[1].items)
           IN /\ Outcome = Ok(SwitchResult(args))
              /\ IF SwitchResult(args) = None THEN ~RootHas("hit")
                 ELSE RootHas("hit") /\ RootVal("hit") = SwitchResult(args)

-----------------------------------------------------------------------------
(* C5 *)

\* C5 (as claimed): exit with one argument ends the process with the
\* resolved value of the argument as status, exit with no argument with
\* status 0, and exit with more arguments raises ValueError.
C5_ExitStatus ==
    /\ \A c \in ExitCases :
          (status # "running" /\ code = c.prog)
              => status = "exited" /\ out = <<>> /\ ret.e.code = c.exit_status
    /\ (status # "running" /\ code \in ExitArityPrograms)
          => Len(out) = 1 /\ out[1].error_name = "ValueError"

-----------------------------------------------------------------------------
(* C6 *)

\* The results of the return programs: the call has the returned value,
\* nothing of the body ran after the return, the caller went on.
C6_Results ==
    \A c \in RetCases :
        (status # "running" /\ code = c.prog)
            => /\ status = "finished"
               /\ RootHas("r") /\ RootVal("r") = c.r
               /\ RootHas("after")
               /\ ~RootHas("late")
               /\ IF c.seen = None THEN ~RootHas("seen")
                  ELSE RootHas("seen") /\ RootVal("seen") = c.seen

\* A step taken while a ReturnValue is in flight: the activation on top
\* ends without running anything more, unless it is a call running its
\* function body, which takes the value as its result.
C6_Unwind ==
    (Active /\ IsExc(ret, "ReturnValue"))
        => IF Top.a = "exec" /\ Top.pc = "call_body"
           THEN /\ kont' = SetTop([Top EXCEPT !.pc = "finally"])
                /\ ret' = Val(ret.e.value)
                /\ scopes' = scopes
           ELSE kont' = Popped /\ ret' = ret /\ scopes' = scopes /\ out' = out

\* C6: a return in a function body, at any nesting depth of if, while, for
\* and switch bodies, unwinds to the innermost running call and to nothing
\* before it; the call's result is the returned value (None without
\* argument, the value for one, the tuple for more), None when the body
\* ends without return, and the caller goes on after the call.
C6_ReturnUnwindsToCall == []C6_Results /\ [][C6_Unwind]_vars

\* A return nested four bodies deep was caught by its call.
C6_Witness ==
    /\ \E c \in RetCases : code = c.prog /\ c.seen = IntV(5)
    /\ status = "finished"
    /\ RootHas("r") /\ RootVal("r").k = "int"

-----------------------------------------------------------------------------
(* C7 *)

\* The loop programs end with the bindings that the claimed handling of
\* break and continue gives.
C7_Results ==
    \A c \in LoopCases :
        (status # "running" /\ code = c.prog)
            => status = "finished" /\ RootLocals = c.env

\* A step taken while a BreakLoop or ContinueLoop is in flight: the
\* activation on top ends without running anything more, unless it is a
\* loop running its body; that loop ends with its result on a break, and
\* goes to its next condition check (for: its next element) on a continue.
C7_Unwind ==
    (Active /\ ret.t = "exc" /\ ret.e.x \in {"BreakLoop", "ContinueLoop"})
        => IF Top.a = "exec" /\ Top.pc \in {"while_body", "for_body"}
           THEN IF ret.e.x = "BreakLoop"
                THEN kont' = SetTop([Top EXCEPT !.pc = "finally"]) /\ ret' = Val(Top.result)
                ELSE /\ kont' = SetTop([Top EXCEPT !.pc = IF Top.pc = "while_body"
                                                          THEN "while_cond" ELSE "for_next"])
                     /\ ret' = Call
           ELSE kont' = Popped /\ ret' = ret /\ scopes' = scopes /\ out' = out

\* C7: a break or continue in a loop body, directly or inside if and switch
\* bodies, is handled by the innermost running loop only; a while that
\* breaks in its 3rd iteration evaluates its body 3 times.
C7_LoopControl == []C7_Results /\ [][C7_Unwind]_vars

\* A while loop allowed 3 iterations or more broke in its 3rd iteration
\* inside an outer loop that went on, and its body was started 3 times.
C7_Witness ==
    /\ status = "finished"
    /\ \E M \in 3..MaxIter : code = NestedProg(M, 3, "break")
    /\ RootVal("i") = IntV(3) /\ RootVal("o") = IntV(2)

-----------------------------------------------------------------------------
(* C8 *)

\* The root's bindings without the functions.
RootData == [n \in {m \in DOMAIN RootLocals : RootLocals[m].k # "func"} |-> RootLocals[n]]

\* The two calls of the scope programs read the x of their call sites.
C8_Results ==
    \A c \in ScopeCases :
        (status # "running" /\ code = c.prog)
            => /\ status = "finished"
               /\ RootHas("ra") /\ RootVal("ra") = c.ra
               /\ RootHas("rb") /\ RootVal("rb") = c.rb

\* The step that starts a function body: one Scope is created, its parent
\* is the scope of the calling instruction, it binds the parameters to the
\* values of the arguments, and the body runs in it.
C8_CallStep ==
    At("call")
        => /\ Len(scopes') = Len(scopes) + 1
           /\ SubSeq(scopes', 1, Len(scopes)) = scopes
           /\ scopes'[Len(scopes')].parent = Top.scope
           /\ scopes'[Len(scopes')].locals
                = Env([n \in 1..Len(Top.vals) |-> <<Top.fn.params.items[n], Top.vals[n]>>])
           /\ kont'[Len(kont')].a = "run" /\ kont'[Len(kont')].scope = Len(scopes')

\* The step that hands an argument to resolve_value does so in the scope of
\* the calling instruction.
C8_ArgStep ==
    (At("args") /\ ret.t = "call")
        => kont'[Len(kont')].a = "resolve" /\ kont'[Len(kont')].scope = Top.scope

\* C8: a call resolves its arguments in the caller's scope and runs the
\* body in a fresh scope whose parent is the scope of the call site, so a
\* free name of the body is read from the call site's scope chain.
C8_CallSiteScope == []C8_Results /\ [][C8_CallStep /\ C8_ArgStep]_vars

\* The same function, called from the root and from a body that binds x
\* differently, gave two different values.
C8_Witness ==
    /\ status = "finished"
    /\ \E c \in ScopeCases : code = c.prog /\ c.ra # c.rb
    /\ RootHas("ra") /\ RootHas("rb") /\ RootVal("ra") # RootVal("rb")

-----------------------------------------------------------------------------
(* C9 *)

\* The names passed to the export instructions of a body that run in the
\* scope of the body: those of nested function definitions are left out.
RECURSIVE ExportedIn(_)
ExportedIn(v) ==
    CASE v.k = "tuple" /\ Len(v.items) > 0 /\ v.items[1] = Str("func") -> {}
      [] v.k = "tuple" /\ Len(v.items) > 0 /\ v.items[1] = Str("export") ->
            {v.items[n] : n \in 2..Len(v.items)}
      [] v.k \in {"tuple", "list"} -> UNION {ExportedIn(v.items[n]) : n \in 1..Len(v.items)}
      [] v.k = "dict" -> UNION {ExportedIn(v.pairs[n][2]) : n \in 1..Len(v.pairs)}
      [] OTHER -> {}

SameBinding(l1, l2, name) ==
    IF name \in DOMAIN l1 THEN name \in DOMAIN l2 /\ l1[name] = l2[name]
    ELSE name \notin DOMAIN l2

\* The function body of the call on top of the control stack has ended, by
\* a value or by an exception.
BodyEnded == At("call_body") /\ ret.t # "call"

\* When the body of a call has ended, every scope that existed when the
\* body started binds every name as it did then, except the caller's scope
\* for the names the body exported.
C9_CallerKept ==
    BodyEnded
        => \A s \in 1..Len(Top.heap) :
             \A name \in DOMAIN scopes[s].locals \cup DOMAIN Top.heap[s].locals :
                \/ s = Top.scope /\ name \in ExportedIn(Top.fn.body)
                \/ SameBinding(scopes[s].locals, Top.heap[s].locals, name)

\* The bind programs end with the root's bindings untouched by the body,
\* but for the exported names.
C9_Results ==
    \A c \in BindCases :
        (status # "running" /\ code = c.prog) => status = "finished" /\ RootData = c.env

\* C9: var, func, for and parameter bindings made while a function body
\* runs change the scope of that call only; the caller's scope changes
\* only by the names the body exports, and no other scope changes.
C9_BindingsStayLocal == C9_CallerKept /\ C9_Results

\* A body has ended that bound x, g, i and p, names its caller binds too,
\* and the caller's x, g, i, p are different from those of the body.
C9_Witness ==
    /\ BodyEnded
    /\ code \in BindPrograms
    /\ Top.fn.name = N("f")
    /\ ExportedIn(Top.fn.body) = {}
    /\ \A name \in {N("x"), N("g"), N("i"), N("p")} :
          /\ name \in DOMAIN scopes[Top.scope].locals
          /\ name \in DOMAIN scopes[Len(Top.heap) + 1].locals
          /\ scopes[Top.scope].locals[name] # scopes[Len(Top.heap) + 1].locals[name]

-----------------------------------------------------------------------------
(* C10 *)

\* The step of an export instruction: without a parent scope nothing is
\* bound and ScopeException is raised; with one, when every name is found,
\* the parent binds each name to the value found from the current scope and
\* nothing else changes.
C10_ExportStep ==
    (At("dispatch") /\ IsTag(Top, "export"))
        => LET par == scopes[Top.scope].parent
               names == {Args(Top)[n] : n \in 1..Len(Args(Top))}
           IN IF par = 0
              THEN scopes' = scopes /\ ret' = Raise("ScopeException")
              ELSE (\A name \in names : ScopeGet(scopes, Top.scope, name).ok)
                     => /\ ret' = Val(None)
                        /\ \A s \in 1..Len(scopes) : s # par => scopes'[s] = scopes[s]
                        /\ DOMAIN scopes'[par].locals = DOMAIN scopes[par].locals \cup names
                        /\ \A name \in DOMAIN scopes'[par].locals :
                              scopes'[par].locals[name]
                                = IF name \in names THEN ScopeGet(scopes, Top.scope, name).v
                                  ELSE scopes[par].locals[name]

\* The export programs: a function body's exports reach the scope of its
\* caller; an export in the root scope binds nothing, prints ScopeException
\* and ends the process with status 1 before the next instruction.
C10_Results ==
    /\ \A c \in ExportCases :
          (status # "running" /\ code = c.prog) => status = "finished" /\ RootData = c.env
    /\ \A c \in RootExportCases :
          (status # "running" /\ code = c.prog)
              => /\ status = "exited" /\ ret.e.code = IntV(1)
                 /\ Len(out) = 1 /\ out[1].error_name = "ScopeException"
                 /\ RootData = c.env

\* C10: export in a scope with a parent writes each name's value, found
\* from the current scope, into the parent; export in the root scope
\* changes nothing, raises ScopeException, and the run prints it and ends
\* the process with a nonzero status.
C10_Export == []C10_Results /\ [][C10_ExportStep]_vars

\* An export of a bound name in the root scope has ended the process: the
\* error is printed, the status is 1, the binding is as it was and the next
\* instruction did not run.
C10_Witness ==
    /\ status = "exited" /\ ret.e.code = IntV(1)
    /\ \E c \in RootExportCases : code = c.prog /\ code.items[2] = I("export", <<N("x")>>)
    /\ Len(out) = 1 /\ out[1].error_name = "ScopeException"
    /\ RootHas("x") /\ ~RootHas("after")

\* A function body has exported its local x into the root scope.
C10_ExportedToCaller ==
    /\ status = "finished"
    /\ \E c \in ExportCases : code = c.prog /\ DOMAIN c.env = {N("x")}
    /\ RootHas("x") /\ RootVal("x") = scopes[2].locals[N("x")]

-----------------------------------------------------------------------------
(* C11 *)

\* C11 (as claimed): an if whose taken branch is a single instruction, one
\* tuple of a tag and its operands, executes that instruction once with all
\* its operands in the scope of the if: the run ends normally, the result
\* of the if is the result of the instruction, and what the instruction
\* binds is bound in the scope of the if.
C11_IfSingleInstruction ==
    \A c \in IfCases :
        (status # "running" /\ code = c.prog)
            => /\ Outcome = Ok(c.result)
               /\ IF c.x = None THEN ~RootHas("x")
                  ELSE RootHas("x") /\ RootVal("x") = c.x

-----------------------------------------------------------------------------
(* C4 *)

\* The value of an arithmetic instruction without flattening: every nested
\* instruction is evaluated to its own value, then the operand list of the
\* outer instruction is reduced left to right.
RECURSIVE NestedValue(_)
NestedValue(x) ==
    IF x.k # "tuple" THEN Ok(x)
    ELSE LET args == Tail(x.items)
             rs == [n \in 1..Len(args) |-> NestedValue(args[n])]
         IN IF \E n \in 1..Len(args) : ~rs[n].ok
            THEN rs[CHOOSE n \in 1..Len(args) :
                        ~rs[n].ok /\ \A m \in 1..(n - 1) : rs[m].ok]
            ELSE reduce(x.items[1].s, [n \in 1..Len(args) |-> rs[n].v])

\* C4 (as claimed): for every operator of + - * / % the run of an arithmetic
\* instruction over integers and same-tag nested instructions ends with the
\* value (or the error) of the evaluation without flattening.
C4_FlattenEqualsNested ==
    (status # "running" /\ code \in ArithPrograms)
        => Outcome = NestedValue(code.items[1])

====
